---- MODULE Spec2Model ----
(***************************************************************************)
(* Register-emulation engine of the DTSU666 emulator                       *)
(* (custom_components/dtsu666_emulator/modbus_server.py, const.py).        *)
(*                                                                         *)
(* Physical values are Python floats in the source.  Here a finite value   *)
(* is a fixed-point integer in thousandths of its unit (Fin(230000) is     *)
(* 230.0 V); the floats that behave specially in the code are kept as      *)
(* separate kinds: "nan", "inf" and "huge" (a finite float such as 1e200   *)
(* whose square overflows).                                                *)
(***************************************************************************)
EXTENDS Integers, Sequences, FiniteSets, TLC

(***************************************************************************)
(* const.py                                                                *)
(***************************************************************************)
NameOrder ==
    << "voltage_l1_l2", "voltage_l2_l3", "voltage_l3_l1",
       "voltage_l1", "voltage_l2", "voltage_l3",
       "current_l1", "current_l2", "current_l3", "current_neutral",
       "power_l1", "power_l2", "power_l3", "power_total",
       "reactive_power_l1", "reactive_power_l2", "reactive_power_l3",
       "reactive_power_total",
       "power_factor_l1", "power_factor_l2", "power_factor_l3",
       "power_factor_total",
       "energy_import_total", "energy_export_total",
       "frequency" >>

Names == { NameOrder[i] : i \in 1..Len(NameOrder) }

\* "addr" of REGISTER_MAP (0x1836 = 6198, 0x836 = 2102, ...).
RegAddr ==
    [ n \in Names |->
        CASE n = "voltage_l1_l2" -> 6198
          [] n = "voltage_l2_l3" -> 6200
          [] n = "voltage_l3_l1" -> 6202
          [] n = "voltage_l1" -> 6204
          [] n = "voltage_l2" -> 6206
          [] n = "voltage_l3" -> 6208
          [] n = "current_l1" -> 2102
          [] n = "current_l2" -> 2104
          [] n = "current_l3" -> 2106
          [] n = "current_neutral" -> 2108
          [] n = "power_l1" -> 2122
          [] n = "power_l2" -> 2124
          [] n = "power_l3" -> 2126
          [] n = "power_total" -> 2128
          [] n = "reactive_power_l1" -> 2130
          [] n = "reactive_power_l2" -> 2132
          [] n = "reactive_power_l3" -> 2134
          [] n = "reactive_power_total" -> 2136
          [] n = "power_factor_l1" -> 2138
          [] n = "power_factor_l2" -> 2140
          [] n = "power_factor_l3" -> 2142
          [] n = "power_factor_total" -> 2144
          [] n = "energy_import_total" -> 2146
          [] n = "energy_export_total" -> 2148
          [] n = "frequency" -> 2150 ]

\* "scale" of REGISTER_MAP in thousandths: 0.1 -> 100, 0.01 -> 10, 0.001 -> 1.
RegScale ==
    [ n \in Names |->
        IF n \in { "voltage_l1_l2", "voltage_l2_l3", "voltage_l3_l1",
                   "voltage_l1", "voltage_l2", "voltage_l3" } THEN 100
        ELSE IF n \in { "energy_import_total", "energy_export_total",
                        "frequency" } THEN 10
        ELSE 1 ]

REQUIRED_ENTITIES == << "power_total", "voltage_l1", "frequency" >>

Fin(x) == [ k |-> "fin", v |-> x ]
NaN == [ k |-> "nan", v |-> 0 ]
PosInf == [ k |-> "inf", v |-> 0 ]
Huge == [ k |-> "huge", v |-> 0 ]

\* DEFAULT_VALUES, in thousandths.
DEFAULT_VALUES ==
    [ n \in Names |->
        IF n \in { "voltage_l1_l2", "voltage_l2_l3", "voltage_l3_l1" }
          THEN Fin(400000)
        ELSE IF n \in { "voltage_l1", "voltage_l2", "voltage_l3" }
          THEN Fin(230000)
        ELSE IF n \in { "power_factor_l1", "power_factor_l2",
                        "power_factor_l3", "power_factor_total" }
          THEN Fin(950)
        ELSE IF n = "frequency" THEN Fin(50000)
        ELSE Fin(0) ]

(***************************************************************************)
(* Float arithmetic used by the engine                                     *)
(***************************************************************************)
\* Python round(): nearest integer, ties to even; n / d with d > 0.
RoundHalfEven(n, d) ==
    LET q == n \div d
        r == n - q * d
    IN  IF 2 * r < d THEN q
        ELSE IF 2 * r > d THEN q + 1
        ELSE IF q % 2 = 0 THEN q ELSE q + 1

\* x > 0
IsPos(x) == \/ x.k = "fin" /\ x.v > 0
            \/ x.k \in { "inf", "huge" }

\* x == 0
IsZero(x) == x.k = "fin" /\ x.v = 0

\* reference_voltage * 1.732
Times1732(x) ==
    IF x.k = "fin" THEN Fin(RoundHalfEven(x.v * 1732, 1000)) ELSE x

\* total_power / 2
Div3Halves(x) ==
    IF x.k = "fin" THEN Fin(RoundHalfEven(x.v, 2)) ELSE x

\* total_power / 3
Div3(x) ==
    IF x.k = "fin" THEN Fin(RoundHalfEven(x.v, 3)) ELSE x

\* (power * 1000) / voltage, taken only with power > 0 and voltage > 0, so
\* a ZeroDivisionError cannot happen.  power is in kW, the quotient in A.
\* A finite power over an infinite or huge voltage is below the resolution;
\* inf / inf is nan; huge / huge is a finite quotient of order 1e3.
CurrentFrom(power, voltage) ==
    IF power.k = "fin" /\ voltage.k = "fin"
      THEN LET a == power.v * 1000
               q == a \div voltage.v
               r == a % voltage.v
           IN  Fin(q * 1000 + RoundHalfEven(r * 1000, voltage.v))
    ELSE IF power.k = "fin" THEN Fin(0)
    ELSE IF voltage.k = "fin" THEN power
    ELSE IF power.k = "inf" /\ voltage.k = "inf" THEN NaN
    ELSE IF power.k = "inf" THEN PosInf
    ELSE IF voltage.k = "inf" THEN Fin(0)
    ELSE Fin(1000000)

\* Largest integer in lo..hi whose square does not exceed n, by bisection.
RECURSIVE IsqrtIn(_, _, _)
IsqrtIn(n, lo, hi) ==
    IF lo >= hi THEN lo
    ELSE LET mid == (lo + hi + 1) \div 2
         IN  IF mid * mid <= n THEN IsqrtIn(n, mid, hi)
             ELSE IsqrtIn(n, lo, mid - 1)

\* (..) ** 0.5 at the model's resolution, for 0 <= n < 2^31.
Isqrt(n) == IsqrtIn(n, 0, 46340)

OverflowError == [ k |-> "OverflowError", v |-> 0 ]

\* The value _calculate_power_factor stores for active_power > 0, or
\* OverflowError when a ** 2 raises.  `reactive_power != 0` is true of nan.
PowerFactorOf(active, reactive) ==
    IF IsZero(reactive) THEN Fin(1000)
    ELSE IF active.k = "huge" \/ reactive.k = "huge" THEN OverflowError
    ELSE IF reactive.k = "nan" THEN Fin(1000)
    ELSE IF active.k = "inf" THEN Fin(1000)
    ELSE IF reactive.k = "inf" THEN Fin(0)
    ELSE LET apparent == Isqrt(active.v * active.v + reactive.v * reactive.v)
         IN  IF apparent > 0
               THEN LET pf == RoundHalfEven(active.v * 1000, apparent)
                    IN  Fin(IF pf > 1000 THEN 1000 ELSE pf)
               ELSE Fin(1000)

(***************************************************************************)
(* Host state collaborator: hass.states.get(entity_id) and float()         *)
(***************************************************************************)
NoState == "<none>"
ValueError == [ k |-> "ValueError", v |-> 0 ]

\* float(state.state) for the source strings the environment produces.
FloatOf(s) ==
    CASE s = "0" -> Fin(0)
      [] s = "0.9" -> Fin(900)
      [] s = "3.0" -> Fin(3000)
      [] s = "4.0" -> Fin(4000)
      [] s = "9.0" -> Fin(9000)
      [] s = "-5.0" -> Fin(-5000)
      [] s = "40.0" -> Fin(40000)
      [] s = "49.98" -> Fin(49980)
      [] s = "50.0" -> Fin(50000)
      [] s = "230.0" -> Fin(230000)
      [] s = "231.55" -> Fin(231550)
      [] s = "400.0" -> Fin(400000)
      [] s = "nan" -> NaN
      [] s = "inf" -> PosInf
      [] s = "1e200" -> Huge
      [] OTHER -> ValueError

StateOf(states, entity_id) ==
    IF entity_id \in DOMAIN states THEN states[entity_id] ELSE NoState

Get(mappings, key) ==
    IF key \in DOMAIN mappings THEN mappings[key] ELSE ""

(***************************************************************************)
(* _check_meter_health                                                     *)
(***************************************************************************)
RequiredFails(mappings, states, required) ==
    LET entity_id == Get(mappings, required)
        state == StateOf(states, entity_id)
    IN  \/ entity_id = ""
        \/ state = NoState
        \/ state \in { "unknown", "unavailable" }
        \/ FloatOf(state) = ValueError

\* Every mapped catalog name is treated as required.
_check_meter_health_all_mapped(mappings, states) ==
    \E n \in (DOMAIN mappings \cap Names) \cup
              { REQUIRED_ENTITIES[i] : i \in 1..Len(REQUIRED_ENTITIES) } :
        RequiredFails(mappings, states, n)

\* The loop returns after its first turn.
_check_meter_health_first_only(mappings, states) ==
    RequiredFails(mappings, states, REQUIRED_ENTITIES[1])

_check_meter_health(mappings, states) ==
    \E i \in 1..Len(REQUIRED_ENTITIES) :
        RequiredFails(mappings, states, REQUIRED_ENTITIES[i])

(***************************************************************************)
(* Derivation engine                                                       *)
(***************************************************************************)
_calculate_voltage_derivatives(derived, reference_voltage) ==
    [ n \in DOMAIN derived |->
        IF /\ n \in { "voltage_l1_l2", "voltage_l2_l3", "voltage_l3_l1" }
           /\ IsZero(derived[n])
          THEN Times1732(reference_voltage)
        ELSE IF n \in { "voltage_l2", "voltage_l3" } /\ IsZero(derived[n])
          THEN reference_voltage
        ELSE derived[n] ]

\* The phase powers are set whether they are 0 or not.
_calculate_power_derivatives_always(derived, total_power) ==
    [ n \in DOMAIN derived |->
        IF n \in { "power_l1", "power_l2", "power_l3" }
          THEN Div3(total_power)
        ELSE derived[n] ]

_calculate_power_derivatives(derived, total_power) ==
    [ n \in DOMAIN derived |->
        IF n \in { "power_l1", "power_l2", "power_l3" } /\ IsZero(derived[n])
          THEN Div3(total_power)
        ELSE derived[n] ]

PhaseOf(current_key) ==
    CASE current_key = "current_l1" -> "l1"
      [] current_key = "current_l2" -> "l2"
      [] current_key = "current_l3" -> "l3"

_calculate_currents(derived) ==
    [ n \in DOMAIN derived |->
        IF n \in { "current_l1", "current_l2", "current_l3" }
          THEN LET power == derived["power_" \o PhaseOf(n)]
                   voltage == derived["voltage_" \o PhaseOf(n)]
               IN  IF IsPos(power) /\ IsPos(voltage) /\ IsZero(derived[n])
                     THEN CurrentFrom(power, voltage)
                     ELSE derived[n]
        ELSE derived[n] ]

\* Returns the updated mapping, or OverflowError when the computation raises.
_calculate_power_factor(derived) ==
    LET active_power == derived["power_total"]
        reactive_power == derived["reactive_power_total"]
    IN  IF IsPos(active_power) /\ IsZero(derived["power_factor_total"])
          THEN LET pf == PowerFactorOf(active_power, reactive_power)
               IN  IF pf = OverflowError THEN OverflowError
                   ELSE [ derived EXCEPT !["power_factor_total"] = pf ]
          ELSE derived

_calculate_derived_values(values) ==
    LET reference_voltage == values["voltage_l1"]
        total_power == values["power_total"]
        d1 == IF IsPos(reference_voltage)
                THEN _calculate_voltage_derivatives(values, reference_voltage)
                ELSE values
        d2 == IF IsPos(total_power)
                THEN _calculate_power_derivatives(d1, total_power)
                ELSE d1
    IN  _calculate_power_factor(_calculate_currents(d2))

(***************************************************************************)
(* Value resolver                                                          *)
(***************************************************************************)
\* The value of one register after the override loop of
\* _get_all_register_values: the mapped source if it is there and float()
\* accepts it, else the default.
MappedOrDefault(mappings, states, register_name) ==
    LET entity_id == Get(mappings, register_name)
        state == StateOf(states, entity_id)
    IN  IF entity_id = "" THEN DEFAULT_VALUES[register_name]
        ELSE IF state = NoState \/ state \in { "unknown", "unavailable" }
          THEN DEFAULT_VALUES[register_name]
        ELSE IF FloatOf(state) = ValueError THEN DEFAULT_VALUES[register_name]
        ELSE FloatOf(state)

\* Every mapping key with a source id that is available and numeric is
\* written to the dict, catalog name or not.
OverrideNamesAnyKey(mappings, states) ==
    { register_name \in DOMAIN mappings :
        /\ mappings[register_name] # ""
        /\ LET state == StateOf(states, mappings[register_name])
           IN  /\ state \notin { NoState, "unknown", "unavailable" }
               /\ FloatOf(state) # ValueError }

\* The keys the override loop writes: mapping keys with a source id, in
\* REGISTER_MAP, whose source is available and numeric.
OverrideNames(mappings, states) ==
    { register_name \in DOMAIN mappings :
        /\ mappings[register_name] # ""
        /\ register_name \in Names
        /\ LET state == StateOf(states, mappings[register_name])
           IN  /\ state \notin { NoState, "unknown", "unavailable" }
               /\ FloatOf(state) # ValueError }

\* A dict with the keys of DEFAULT_VALUES and those of the override loop,
\* then derived.  OverflowError when the derivation raises.
_get_all_register_values(mappings, states) ==
    _calculate_derived_values(
        [ n \in DOMAIN DEFAULT_VALUES \cup OverrideNames(mappings, states) |->
            MappedOrDefault(mappings, states, n) ])

(***************************************************************************)
(* Register encoder: _update_single_register                               *)
(***************************************************************************)
EncodeError == -1

\* The scaled value is masked to 16 bits without being clamped first.
EncodeWordNoClamp(register_name, value) ==
    LET scale == RegScale[register_name]
    IN  IF value.k \in { "nan", "inf" } /\ scale # 0 THEN EncodeError
        ELSE IF value.k = "huge" /\ scale # 0 THEN 0
        ELSE LET scaled_value ==
                     IF scale # 0 THEN RoundHalfEven(value.v, scale) ELSE 0
             IN  scaled_value % 65536

\* A negative scaled value is written as 0 instead of its two's complement.
EncodeWordUnsigned(register_name, value) ==
    LET scale == RegScale[register_name]
    IN  IF value.k \in { "nan", "inf" } /\ scale # 0 THEN EncodeError
        ELSE IF value.k = "huge" /\ scale # 0 THEN 32767
        ELSE LET scaled_value ==
                     IF scale # 0 THEN RoundHalfEven(value.v, scale) ELSE 0
             IN  IF scaled_value < 0 THEN 0
                 ELSE IF scaled_value > 32767 THEN 32767
                 ELSE scaled_value

\* The 16-bit word written for a value, or EncodeError when int(round(..))
\* raises (ValueError for nan, OverflowError for inf); the exception is
\* caught inside _update_single_register, before anything is written.
EncodeWord(register_name, value) ==
    LET scale == RegScale[register_name]
    IN  IF value.k \in { "nan", "inf" } /\ scale # 0 THEN EncodeError
        ELSE IF value.k = "huge" /\ scale # 0 THEN 32767
        ELSE LET scaled_value ==
                     IF scale # 0 THEN RoundHalfEven(value.v, scale) ELSE 0
                 bounded ==
                     IF scaled_value < 0
                       THEN 65536 + (IF scaled_value < -32768 THEN -32768
                                     ELSE scaled_value)
                       ELSE (IF scaled_value > 32767 THEN 32767
                             ELSE scaled_value)
             IN  bounded % 65536

\* setValues(address, [scaled_value, scaled_value]): the word is written to
\* the address and to the one after it.
_update_single_register_two_words(st, register_name, value) ==
    IF register_name \notin Names THEN st
    ELSE LET word == EncodeWord(register_name, value)
             address == RegAddr[register_name]
         IN  IF word = EncodeError THEN st
             ELSE [ db |-> [ a \in DOMAIN st.db |->
                              IF a \in { address, address + 1 } THEN word
                              ELSE st.db[a] ],
                    cv |-> (register_name :> value) @@ st.cv,
                    raw |-> (register_name :> word) @@ st.raw ]

\* st = [db, cv, raw]: the register store and the two cache dicts.
_update_single_register(st, register_name, value) ==
    IF register_name \notin Names THEN st
    ELSE LET word == EncodeWord(register_name, value)
         IN  IF word = EncodeError THEN st
             ELSE [ db |-> [ st.db EXCEPT ![RegAddr[register_name]] = word ],
                    cv |-> (register_name :> value) @@ st.cv,
                    raw |-> (register_name :> word) @@ st.raw ]

\* The catalog entry stored at an address.
NameAt ==
    [ a \in { RegAddr[n] : n \in Names } |->
        CHOOSE n \in Names : RegAddr[n] = a ]

\* The place of a catalog name in the order of REGISTER_MAP.
OrderOf(n) == CHOOSE i \in 1..Len(NameOrder) : NameOrder[i] = n

\* for register_name, value in all_values.items(): what a turn of the loop
\* writes depends on its own name and value only, so the store and the
\* caches after the loop are given entry by entry: a catalog address and a
\* cache key by the turn of their own name, any other address by the last
\* turn that writes it, if there is one.
UpdateAll(st, all_values) ==
    LET turn == [ n \in Names |->
                    _update_single_register(st, n, all_values[n]) ]
        writers(a) == { n \in Names : turn[n].db[a] # st.db[a] }
        last(S) == CHOOSE n \in S : \A m \in S : OrderOf(m) <= OrderOf(n)
    IN  [ db |-> [ a \in DOMAIN st.db |->
                     IF a \in DOMAIN NameAt THEN turn[NameAt[a]].db[a]
                     ELSE IF writers(a) = {} THEN st.db[a]
                     ELSE turn[last(writers(a))].db[a] ],
          cv |-> [ n \in { m \in Names : m \in DOMAIN turn[m].cv } |->
                     turn[n].cv[n] ],
          raw |-> [ n \in { m \in Names : m \in DOMAIN turn[m].raw } |->
                      turn[n].raw[n] ] ]

EmptyDict == << >>

\* The registers are blanked and the value cache is cleared, the raw cache
\* is left as it is.
_simulate_meter_failure_keeps_raw(st) ==
    [ db |-> [ a \in DOMAIN st.db |->
                 IF a \in { RegAddr[n] : n \in Names } THEN 0 ELSE st.db[a] ],
      cv |-> EmptyDict,
      raw |-> st.raw ]

\* The registers are blanked, the caches are left as they are.
_simulate_meter_failure_keeps_cache(st) ==
    [ db |-> [ a \in DOMAIN st.db |->
                 IF a \in { RegAddr[n] : n \in Names } THEN 0 ELSE st.db[a] ],
      cv |-> st.cv,
      raw |-> st.raw ]

\* _simulate_meter_failure
_simulate_meter_failure(st) ==
    [ db |-> [ a \in DOMAIN st.db |->
                 IF a \in { RegAddr[n] : n \in Names } THEN 0 ELSE st.db[a] ],
      cv |-> EmptyDict,
      raw |-> EmptyDict ]

(***************************************************************************)
(* Bounds and inputs                                                       *)
(***************************************************************************)
\* How many sources may be away from their nominal state at the same time.
MaxDeviations == 1

Entities == { "sensor.grid_power", "sensor.l1_voltage", "sensor.frequency",
              "sensor.l2_voltage", "sensor.reactive", "sensor.pf" }

NominalStates ==
    [ e \in Entities |->
        CASE e = "sensor.grid_power" -> "3.0"
          [] e = "sensor.l1_voltage" -> "230.0"
          [] e = "sensor.frequency" -> "50.0"
          [] e = "sensor.l2_voltage" -> "231.55"
          [] e = "sensor.reactive" -> "4.0"
          [] e = "sensor.pf" -> "0" ]

SourceStates ==
    [ e \in Entities |->
        CASE e = "sensor.grid_power" -> { "3.0", "1e200", "unavailable" }
          [] e = "sensor.l1_voltage" -> { "230.0", "unknown", "nan" }
          [] e = "sensor.frequency" -> { "50.0", "abc" }
          [] e = "sensor.l2_voltage" -> { "231.55", "inf" }
          [] e = "sensor.reactive" -> { "4.0", "0" }
          [] e = "sensor.pf" -> { "0", "0.9" } ]

Deviations(states) ==
    Cardinality({ e \in Entities : states[e] # NominalStates[e] })

FullMapping ==
    [ n \in { "power_total", "voltage_l1", "frequency", "voltage_l2",
              "reactive_power_total", "power_factor_total" } |->
        CASE n = "power_total" -> "sensor.grid_power"
          [] n = "voltage_l1" -> "sensor.l1_voltage"
          [] n = "frequency" -> "sensor.frequency"
          [] n = "voltage_l2" -> "sensor.l2_voltage"
          [] n = "reactive_power_total" -> "sensor.reactive"
          [] n = "power_factor_total" -> "sensor.pf" ]

\* The required measurements and the inputs of the power factor, a key
\* outside the catalog, an empty source id and a source id the host does not
\* know.
SparseMapping ==
    [ n \in { "power_total", "voltage_l1", "frequency",
              "reactive_power_total", "power_factor_total", "bogus",
              "current_l1", "voltage_l3" } |->
        CASE n = "power_total" -> "sensor.grid_power"
          [] n = "voltage_l1" -> "sensor.l1_voltage"
          [] n = "frequency" -> "sensor.frequency"
          [] n = "reactive_power_total" -> "sensor.reactive"
          [] n = "power_factor_total" -> "sensor.pf"
          [] n = "bogus" -> "sensor.l2_voltage"
          [] n = "current_l1" -> ""
          [] n = "voltage_l3" -> "sensor.gone" ]

\* Only the required measurements.
LeanMapping ==
    [ n \in { "power_total", "voltage_l1", "frequency" } |->
        CASE n = "power_total" -> "sensor.grid_power"
          [] n = "voltage_l1" -> "sensor.l1_voltage"
          [] n = "frequency" -> "sensor.frequency" ]

\* frequency, a required measurement, is mapped to a source the host does
\* not have.
MissingRequired ==
    [ n \in { "power_total", "voltage_l1", "frequency" } |->
        CASE n = "power_total" -> "sensor.grid_power"
          [] n = "voltage_l1" -> "sensor.l1_voltage"
          [] n = "frequency" -> "sensor.gone" ]

\* frequency, a required measurement, is not mapped.
UnmappedRequired ==
    [ n \in { "power_total", "voltage_l1" } |->
        CASE n = "power_total" -> "sensor.grid_power"
          [] n = "voltage_l1" -> "sensor.l1_voltage" ]

\* What StartUdpServer meets on the host: the port is free, the port is held
\* by another process (which may release it), binding raises another OSError,
\* or the library raises something else.
Networks == { "free", "busy", "denied", "broken" }

Setup(port, slave_id, update_interval, mappings, net) ==
    [ port |-> port, slave_id |-> slave_id,
      update_interval |-> update_interval, mappings |-> mappings,
      network |-> net ]

Setups ==
    { Setup(5020, 11, 5, FullMapping, "free"),
      Setup(5020, 11, 300, SparseMapping, "free"),
      Setup(5020, 11, 10, LeanMapping, "free"),
      Setup(502, 247, 1, UnmappedRequired, "busy"),
      Setup(65535, 1, 60, MissingRequired, "denied"),
      Setup(1, 11, 5, UnmappedRequired, "broken"),
      Setup(0, 11, 5, FullMapping, "free"),
      Setup(65536, 11, 5, FullMapping, "free"),
      Setup(5020, 0, 5, FullMapping, "free"),
      Setup(5020, 248, 5, FullMapping, "free"),
      Setup(5020, 11, 0, FullMapping, "free"),
      Setup(5020, 11, 301, FullMapping, "free") }

(***************************************************************************)
(* State                                                                   *)
(***************************************************************************)
VARIABLES
    config,               \* port, slave_id, update_interval
    entity_mappings,
    hass_states,          \* hass.states: entity id -> state string
    network,              \* what binding the UDP port meets on this host
    _data_block,          \* None, or the register store: address -> word
    _running,
    _meter_failed,
    _current_values,
    _raw_register_values,
    update_pc,            \* position of the _periodic_update task
    error_count,
    backoff_delay,        \* in 1/512 s
    server_pc,            \* position of the _run_server_with_recovery task
    retry_count,
    start_result,         \* what start() returned
    stop_pc,              \* position of stop()
    cancel_requested,     \* tasks on which Task.cancel() is pending
    last_tick,            \* record of the last call of _update_registers
    _state_lock,          \* who holds the RLock: "free" or "tick"
    tick_pc,              \* position inside _update_registers
    tick_i,               \* position of its publication loop in NameOrder
    last_read,            \* the last inspection call and what it returned
    call                  \* a single call of a method: its input and what it gave

vars == << config, entity_mappings, hass_states, network, _data_block, _running,
           _meter_failed, _current_values, _raw_register_values, update_pc,
           error_count, backoff_delay, server_pc, retry_count, start_result,
           stop_pc, cancel_requested, last_tick, _state_lock, tick_pc,
           tick_i, last_read, call >>

\* The variables that only the step-by-step view of a tick and the single
\* calls change.
tick_vars == << _state_lock, tick_pc, tick_i, last_read, call >>

None == << >>

\* Addresses of the store that the model follows: the catalog's, and some
\* of the 10000 that belong to no catalog entry.
OtherAddrs == { 0, 2103, 6199, 9999 }
StoreAddrs == { RegAddr[n] : n \in Names } \cup OtherAddrs

\* ModbusSequentialDataBlock(0, [0] * 10000)
ZeroBlock == [ a \in StoreAddrs |-> 0 ]

Seconds(n) == n * 512

max_errors == 10
max_retries == 3
MaxBackoff == 60

NoTick == [ kind |-> "none", was_failed |-> FALSE, prev_errors |-> 0,
            written |-> {} ]

NoRead == [ op |-> "none", result |-> FALSE ]

NoCall == [ op |-> "none" ]

\* The engine after __init__, for one of the setups.
Constructed(setups) ==
    /\ \E s \in setups :
         /\ config = [ port |-> s.port, slave_id |-> s.slave_id,
                       update_interval |-> s.update_interval ]
         /\ entity_mappings = s.mappings
         /\ network = s.network
    /\ _state_lock = "free"
    /\ tick_pc = "idle"
    /\ tick_i = 0
    /\ last_read = NoRead
    /\ call = NoCall
    /\ _data_block = None
    /\ _running = FALSE
    /\ _meter_failed = FALSE
    /\ _current_values = EmptyDict
    /\ _raw_register_values = EmptyDict
    /\ update_pc = "none"
    /\ error_count = 0
    /\ backoff_delay = 0
    /\ server_pc = "none"
    /\ retry_count = 0
    /\ start_result = "none"
    /\ stop_pc = "idle"
    /\ cancel_requested = {}
    /\ last_tick = NoTick

Init ==
    /\ Constructed(Setups)
    /\ hass_states = NominalStates

(***************************************************************************)
(* start()                                                                 *)
(***************************************************************************)
\* The update interval is not checked.
_validate_configuration_no_interval(c) ==
    /\ 1 <= c.port /\ c.port <= 65535
    /\ 1 <= c.slave_id /\ c.slave_id <= 247

_validate_configuration(c) ==
    /\ 1 <= c.port /\ c.port <= 65535
    /\ 1 <= c.slave_id /\ c.slave_id <= 247
    /\ 1 <= c.update_interval /\ c.update_interval <= 300

Start ==
    /\ start_result = "none"
    /\ IF ~_validate_configuration(config)
         THEN /\ start_result' = "False"
              /\ UNCHANGED << _data_block, _running, server_pc, update_pc,
                              error_count, backoff_delay >>
         ELSE /\ _data_block' = ZeroBlock
              /\ _running' = TRUE
              /\ server_pc' = "pending"
              /\ update_pc' = "pending"
              /\ error_count' = 0
              /\ backoff_delay' = Seconds(config.update_interval)
              /\ start_result' = "True"
    /\ UNCHANGED << tick_vars, config, entity_mappings, hass_states, network, _meter_failed,
                    _current_values, _raw_register_values, retry_count,
                    stop_pc, cancel_requested, last_tick >>

(***************************************************************************)
(* _update_registers: one tick                                             *)
(***************************************************************************)
Store == [ db |-> _data_block, cv |-> _current_values,
           raw |-> _raw_register_values ]

\* The names whose register a publication of all_values writes.
WrittenBy(all_values) ==
    { n \in Names : EncodeWord(n, all_values[n]) # EncodeError }

TickResult(st, failed, raised, kind, written) ==
    [ st |-> st, failed |-> failed, raised |-> raised, kind |-> kind,
      written |-> written ]

\* The failed branch raises instead of returning.
FailedTickRaises(st, failed) ==
    IF ~failed
      THEN TickResult(_simulate_meter_failure(st), TRUE, TRUE,
                      "enter_failed", {})
      ELSE TickResult(st, TRUE, TRUE, "still_failed", {})

\* The branch of a tick whose health check failed: blank on entering the
\* failed state, nothing when already failed; it returns normally.
FailedTick(st, failed) ==
    IF ~failed
      THEN TickResult(_simulate_meter_failure(st), TRUE, FALSE,
                      "enter_failed", {})
      ELSE TickResult(st, TRUE, FALSE, "still_failed", {})

\* The effect of one call on the store, the caches and the health flag;
\* raised is TRUE when the call ends with an exception.
_update_registers(st, failed, mappings, states) ==
    LET meter_should_fail == _check_meter_health(mappings, states)
        all_values == _get_all_register_values(mappings, states)
    IN  IF st.db = None
          THEN TickResult(st, failed, FALSE, "no_store", {})
        ELSE IF meter_should_fail
          THEN FailedTick(st, failed)
        ELSE IF all_values = OverflowError
          \* raised by _restore_meter_values when recovering (the flag is
          \* already cleared), by _get_all_register_values otherwise
          THEN TickResult(st, FALSE, TRUE,
                          IF failed THEN "recover_raised" ELSE "raised", {})
        ELSE IF failed
          \* _restore_meter_values, then the publication loop once more
          THEN TickResult(
                   UpdateAll(UpdateAll(st, all_values), all_values),
                   FALSE, FALSE, "recover", WrittenBy(all_values))
        ELSE TickResult(UpdateAll(st, all_values), FALSE, FALSE,
                        "publish", WrittenBy(all_values))

\* The number of setValues calls a tick of the given kind makes for a
\* catalog entry: one by _simulate_meter_failure on entering the failed
\* state, one by the publication loop for a value that encodes, one more
\* by _restore_meter_values on recovery, none when the tick returns early
\* (already failed) or raises before the loop.
SetValuesCalls(kind, written, n) ==
    CASE kind = "enter_failed" -> 1
      [] kind = "publish" -> IF n \in written THEN 1 ELSE 0
      [] kind = "recover" -> IF n \in written THEN 2 ELSE 0
      [] OTHER -> 0

(***************************************************************************)
(* _periodic_update: one iteration of the loop                             *)
(***************************************************************************)
Min(a, b) == IF a < b THEN a ELSE b

\* backoff_delay * 1.5, without the cap.
NextBackoffUncapped(delay) == (delay * 3) \div 2

\* min(backoff_delay * 1.5, 60)
NextBackoff(delay) == Min((delay * 3) \div 2, Seconds(MaxBackoff))

Waiting == { "pending", "sleep", "backoff" }

\* The try body sleeps without resetting error_count and backoff_delay.
LoopAfterTickNoReset(raised, count, delay, update_interval) ==
    IF ~raised
      THEN [ error_count |-> count, backoff_delay |-> delay, pc |-> "sleep" ]
    ELSE IF count + 1 >= max_errors
      THEN [ error_count |-> count + 1, backoff_delay |-> delay,
             pc |-> "exited_errors" ]
    ELSE [ error_count |-> count + 1, backoff_delay |-> NextBackoff(delay),
           pc |-> "backoff" ]

\* The loop's bookkeeping after a tick: the try body's reset and sleep, or
\* the except branch's count, ceiling and backoff.
LoopAfterTick(raised, count, delay, update_interval) ==
    IF ~raised
      THEN [ error_count |-> 0, backoff_delay |-> Seconds(update_interval),
             pc |-> "sleep" ]
    ELSE IF count + 1 >= max_errors
      THEN [ error_count |-> count + 1, backoff_delay |-> delay,
             pc |-> "exited_errors" ]
    ELSE [ error_count |-> count + 1, backoff_delay |-> NextBackoff(delay),
           pc |-> "backoff" ]

PeriodicUpdate ==
    /\ update_pc \in Waiting
    /\ "update" \notin cancel_requested
    /\ UNCHANGED << tick_vars, config, entity_mappings, hass_states, network,
                    _running, server_pc, retry_count, start_result, stop_pc,
                    cancel_requested >>
    /\ IF ~_running
         THEN /\ update_pc' = "exited"
              /\ UNCHANGED << _data_block, _meter_failed, _current_values,
                              _raw_register_values, error_count,
                              backoff_delay, last_tick >>
         ELSE LET r == _update_registers(Store, _meter_failed,
                                         entity_mappings, hass_states)
                  l == LoopAfterTick(r.raised, error_count, backoff_delay,
                                     config.update_interval)
              IN  /\ _data_block' = r.st.db
                  /\ _current_values' = r.st.cv
                  /\ _raw_register_values' = r.st.raw
                  /\ _meter_failed' = r.failed
                  /\ last_tick' = [ kind |-> r.kind,
                                    was_failed |-> _meter_failed,
                                    prev_errors |-> error_count,
                                    written |-> r.written ]
                  /\ error_count' = l.error_count
                  /\ backoff_delay' = l.backoff_delay
                  /\ update_pc' = l.pc

(***************************************************************************)
(* _run_server_with_recovery                                               *)
(***************************************************************************)
\* The outcomes of one call of StartUdpServer under a network condition.
ServerOutcomes(net) ==
    CASE net = "free" -> { "serving" }
      [] net = "busy" -> { "address_in_use", "serving" }
      [] net = "denied" -> { "os_error" }
      [] net = "broken" -> { "exception" }

\* The loop is left without the final check of retry_count.
ServerAttemptNoFinalCheck ==
    /\ server_pc \in { "pending", "retry_sleep" }
    /\ "server" \notin cancel_requested
    /\ IF ~(_running /\ retry_count < max_retries)
         THEN /\ server_pc' = "exited"
              /\ UNCHANGED << retry_count, _running >>
         ELSE \E outcome \in ServerOutcomes(network) :
                CASE outcome = "serving" ->
                       /\ server_pc' = "serving"
                       /\ UNCHANGED << retry_count, _running >>
                  [] outcome = "address_in_use" ->
                       /\ retry_count' = retry_count + 1
                       /\ server_pc' = "retry_sleep"
                       /\ UNCHANGED _running
                  [] outcome = "os_error" ->
                       /\ retry_count' = retry_count + 1
                       /\ server_pc' = "exited"
                       /\ UNCHANGED _running
                  [] outcome = "exception" ->
                       /\ server_pc' = "exited"
                       /\ UNCHANGED << retry_count, _running >>
    /\ UNCHANGED << tick_vars, config, entity_mappings, hass_states, network, _data_block,
                    _meter_failed, _current_values, _raw_register_values,
                    update_pc, error_count, backoff_delay, start_result,
                    stop_pc, cancel_requested, last_tick >>

\* One evaluation of the while condition and, if it holds, one call of
\* StartUdpServer with its outcome; leaving the loop runs the final check.
ServerAttempt ==
    /\ server_pc \in { "pending", "retry_sleep" }
    /\ "server" \notin cancel_requested
    /\ IF ~(_running /\ retry_count < max_retries)
         THEN /\ server_pc' = "exited"
              /\ _running' = IF retry_count >= max_retries THEN FALSE
                             ELSE _running
              /\ UNCHANGED retry_count
         ELSE \E outcome \in ServerOutcomes(network) :
                CASE outcome = "serving" ->
                       /\ server_pc' = "serving"
                       /\ UNCHANGED << retry_count, _running >>
                  [] outcome = "address_in_use" ->
                       /\ retry_count' = retry_count + 1
                       /\ server_pc' = "retry_sleep"
                       /\ UNCHANGED _running
                  [] outcome = "os_error" ->
                       /\ retry_count' = retry_count + 1
                       /\ server_pc' = "exited"
                       /\ _running' = IF retry_count + 1 >= max_retries
                                        THEN FALSE ELSE _running
                  [] outcome = "exception" ->
                       /\ server_pc' = "exited"
                       /\ UNCHANGED << retry_count, _running >>
    /\ UNCHANGED << tick_vars, config, entity_mappings, hass_states, network, _data_block,
                    _meter_failed, _current_values, _raw_register_values,
                    update_pc, error_count, backoff_delay, start_result,
                    stop_pc, cancel_requested, last_tick >>

\* StartUdpServer returns: break, then the final check.
ServerReturns ==
    /\ server_pc = "serving"
    /\ "server" \notin cancel_requested
    /\ server_pc' = "exited"
    /\ _running' = IF retry_count >= max_retries THEN FALSE ELSE _running
    /\ UNCHANGED << tick_vars, config, entity_mappings, hass_states, network, _data_block,
                    _meter_failed, _current_values, _raw_register_values,
                    update_pc, error_count, backoff_delay, retry_count,
                    start_result, stop_pc, cancel_requested, last_tick >>

(***************************************************************************)
(* stop(), and the cancellation of the two tasks                           *)
(***************************************************************************)
\* stop() without its first statement.
StopBeginKeepsRunning ==
    /\ start_result = "True"
    /\ stop_pc = "idle"
    /\ cancel_requested' = cancel_requested \cup { "update" }
    /\ stop_pc' = "await_update"
    /\ UNCHANGED << tick_vars, config, entity_mappings, hass_states, network,
                    _data_block, _running, _meter_failed, _current_values,
                    _raw_register_values, update_pc, error_count,
                    backoff_delay, server_pc, retry_count, start_result,
                    last_tick >>

\* stop() also resets the health flag.
StopBeginResetsHealth ==
    /\ start_result = "True"
    /\ stop_pc = "idle"
    /\ _running' = FALSE
    /\ _meter_failed' = FALSE
    /\ cancel_requested' = cancel_requested \cup { "update" }
    /\ stop_pc' = "await_update"
    /\ UNCHANGED << tick_vars, config, entity_mappings, hass_states, network,
                    _data_block, _current_values, _raw_register_values,
                    update_pc, error_count, backoff_delay, server_pc,
                    retry_count, start_result, last_tick >>

\* self._running = False; self._update_task.cancel(); await it.
StopBegin ==
    /\ start_result = "True"
    /\ stop_pc = "idle"
    /\ _running' = FALSE
    /\ cancel_requested' = cancel_requested \cup { "update" }
    /\ stop_pc' = "await_update"
    /\ UNCHANGED << tick_vars, config, entity_mappings, hass_states, network, _data_block,
                    _meter_failed, _current_values, _raw_register_values,
                    update_pc, error_count, backoff_delay, server_pc,
                    retry_count, start_result, last_tick >>

\* CancelledError reaches the update task where it waits: before its first
\* step, in asyncio.sleep(update_interval) or in asyncio.sleep(backoff_delay).
\* Both sleeps catch it and break.
UpdateCancelled ==
    /\ "update" \in cancel_requested
    /\ update_pc \in Waiting
    /\ update_pc' = "cancelled"
    /\ UNCHANGED << tick_vars, config, entity_mappings, hass_states, network, _data_block,
                    _running, _meter_failed, _current_values,
                    _raw_register_values, error_count, backoff_delay,
                    server_pc, retry_count, start_result, stop_pc,
                    cancel_requested, last_tick >>

\* The await of the update task ends; self._server_task.cancel(); await it.
StopAwaitUpdate ==
    /\ stop_pc = "await_update"
    /\ update_pc \notin Waiting
    /\ cancel_requested' = cancel_requested \cup { "server" }
    /\ stop_pc' = "await_server"
    /\ UNCHANGED << tick_vars, config, entity_mappings, hass_states, network, _data_block,
                    _running, _meter_failed, _current_values,
                    _raw_register_values, update_pc, error_count,
                    backoff_delay, server_pc, retry_count, start_result,
                    last_tick >>

\* CancelledError is not an Exception: it leaves _run_server_with_recovery.
ServerCancelled ==
    /\ "server" \in cancel_requested
    /\ server_pc \in { "pending", "retry_sleep", "serving" }
    /\ server_pc' = "cancelled"
    /\ UNCHANGED << tick_vars, config, entity_mappings, hass_states, network, _data_block,
                    _running, _meter_failed, _current_values,
                    _raw_register_values, update_pc, error_count,
                    backoff_delay, retry_count, start_result, stop_pc,
                    cancel_requested, last_tick >>

StopReturn ==
    /\ stop_pc = "await_server"
    /\ server_pc \in { "exited", "cancelled" }
    /\ stop_pc' = "returned"
    /\ UNCHANGED << tick_vars, config, entity_mappings, hass_states, network, _data_block,
                    _running, _meter_failed, _current_values,
                    _raw_register_values, update_pc, error_count,
                    backoff_delay, server_pc, retry_count, start_result,
                    cancel_requested, last_tick >>

(***************************************************************************)
(* The host changes the state of one source                                *)
(***************************************************************************)
\* Only a source the mapping names is followed, and only while the update
\* loop can still read it.
MappedEntities ==
    { e \in Entities :
        \E n \in DOMAIN entity_mappings \cap Names : entity_mappings[n] = e }

EnvChange ==
    /\ update_pc \in Waiting
    /\ tick_pc = "idle"
    /\ "update" \notin cancel_requested
    /\ \E e \in MappedEntities : \E v \in SourceStates[e] :
         /\ v # hass_states[e]
         /\ Deviations([ hass_states EXCEPT ![e] = v ]) <= MaxDeviations
         /\ hass_states' = [ hass_states EXCEPT ![e] = v ]
    /\ UNCHANGED << tick_vars, config, entity_mappings, network, _data_block, _running,
                    _meter_failed, _current_values, _raw_register_values,
                    update_pc, error_count, backoff_delay, server_pc,
                    retry_count, start_result, stop_pc, cancel_requested,
                    last_tick >>

Next ==
    \/ Start
    \/ PeriodicUpdate
    \/ ServerAttempt
    \/ ServerReturns
    \/ StopBegin
    \/ UpdateCancelled
    \/ StopAwaitUpdate
    \/ ServerCancelled
    \/ StopReturn
    \/ EnvChange

Spec == Init /\ [][Next]_vars

TypeOK ==
    /\ _running \in BOOLEAN
    /\ _meter_failed \in BOOLEAN
    /\ error_count \in 0..max_errors
    /\ retry_count \in 0..max_retries
    /\ DOMAIN _current_values \subseteq Names
    /\ DOMAIN _raw_register_values \subseteq Names
    /\ \A n \in DOMAIN _raw_register_values :
         _raw_register_values[n] \in 0..65535

(***************************************************************************)
(* The engine under a constant environment, with the event loop's          *)
(* fairness: a task that can take its cancellation takes it, and an await  *)
(* whose task is done returns.                                             *)
(***************************************************************************)
StopSnapshots ==
    { [ NominalStates EXCEPT !["sensor.grid_power"] = v ] :
        v \in SourceStates["sensor.grid_power"] }

InitStop ==
    /\ Constructed(Setups)
    /\ hass_states \in StopSnapshots

NextStop ==
    \/ Start
    \/ PeriodicUpdate
    \/ ServerAttempt
    \/ ServerReturns
    \/ StopBegin
    \/ UpdateCancelled
    \/ StopAwaitUpdate
    \/ ServerCancelled
    \/ StopReturn

SpecStop ==
    /\ InitStop
    /\ [][NextStop]_vars
    /\ WF_vars(UpdateCancelled)
    /\ WF_vars(StopAwaitUpdate)
    /\ WF_vars(ServerCancelled)
    /\ WF_vars(StopReturn)

(***************************************************************************)
(* A tick step by step, with _state_lock, against inspection calls made    *)
(* from other threads                                                      *)
(***************************************************************************)
\* Without the lock.
AcquireNothing(who) == "free"

\* with self._state_lock:
Acquire(who) == who

\* The tick is over: what _periodic_update does next.
TickEnds(raised, kind, written, was_failed) ==
    LET l == LoopAfterTick(raised, error_count, backoff_delay,
                           config.update_interval)
    IN  /\ last_tick' = [ kind |-> kind, was_failed |-> was_failed,
                          prev_errors |-> error_count, written |-> written ]
        /\ error_count' = l.error_count
        /\ backoff_delay' = l.backoff_delay
        /\ update_pc' = l.pc
        /\ tick_pc' = "idle"
        /\ tick_i' = 0

TickGoesOn(pc, i) ==
    /\ last_tick' = [ kind |-> "in_progress", was_failed |-> _meter_failed,
                      prev_errors |-> error_count, written |-> {} ]
    /\ tick_pc' = pc
    /\ tick_i' = i
    /\ UNCHANGED << error_count, backoff_delay, update_pc >>

\* The health check, the with block's flag update and, on the healthy path,
\* the resolution of the values to publish.
TickBegin ==
    /\ update_pc \in Waiting
    /\ "update" \notin cancel_requested
    /\ _running
    /\ tick_pc = "idle"
    /\ _state_lock = "free"
    /\ LET meter_should_fail ==
               _check_meter_health(entity_mappings, hass_states)
           all_values == _get_all_register_values(entity_mappings, hass_states)
       IN  IF meter_should_fail /\ ~_meter_failed
             THEN /\ _state_lock' = Acquire("tick")
                  /\ _meter_failed' = TRUE
                  /\ TickGoesOn("locked_fail", 0)
           ELSE IF meter_should_fail
             THEN /\ UNCHANGED << _state_lock, _meter_failed >>
                  /\ TickEnds(FALSE, "still_failed", {}, TRUE)
           ELSE IF _meter_failed
             THEN /\ _state_lock' = Acquire("tick")
                  /\ _meter_failed' = FALSE
                  /\ TickGoesOn("locked_recover", 0)
           ELSE IF all_values = OverflowError
             THEN /\ UNCHANGED << _state_lock, _meter_failed >>
                  /\ TickEnds(TRUE, "raised", {}, FALSE)
           ELSE /\ UNCHANGED << _state_lock, _meter_failed >>
                /\ TickGoesOn("publish", 1)
    /\ UNCHANGED << config, entity_mappings, hass_states, network,
                    _data_block, _running, _current_values,
                    _raw_register_values, server_pc, retry_count,
                    start_result, stop_pc, cancel_requested, last_read, call >>

\* _simulate_meter_failure inside the with block, then return.
TickBlank ==
    /\ tick_pc = "locked_fail"
    /\ LET st == _simulate_meter_failure(Store)
       IN  /\ _data_block' = st.db
           /\ _current_values' = st.cv
           /\ _raw_register_values' = st.raw
    /\ _state_lock' = "free"
    /\ TickEnds(FALSE, "enter_failed", {}, last_tick.was_failed)
    /\ UNCHANGED << config, entity_mappings, hass_states, network, _running,
                    _meter_failed, server_pc, retry_count, start_result,
                    stop_pc, cancel_requested, last_read, call >>

\* _restore_meter_values inside the with block; an exception leaves the
\* block, and the tick, with the lock released.
TickRestore ==
    /\ tick_pc = "locked_recover"
    /\ LET all_values == _get_all_register_values(entity_mappings, hass_states)
       IN  IF all_values = OverflowError
             THEN /\ TickEnds(TRUE, "recover_raised", {}, last_tick.was_failed)
                  /\ UNCHANGED << _data_block, _current_values,
                                  _raw_register_values >>
             ELSE LET st == UpdateAll(Store, all_values)
                  IN  /\ _data_block' = st.db
                      /\ _current_values' = st.cv
                      /\ _raw_register_values' = st.raw
                      /\ tick_pc' = "publish"
                      /\ tick_i' = 1
                      /\ UNCHANGED << last_tick, error_count, backoff_delay,
                                      update_pc >>
    /\ _state_lock' = "free"
    /\ UNCHANGED << config, entity_mappings, hass_states, network, _running,
                    _meter_failed, server_pc, retry_count, start_result,
                    stop_pc, cancel_requested, last_read, call >>

\* One turn of the publication loop: _update_single_register, which takes
\* the lock for its two cache writes.
TickPublishOne ==
    /\ tick_pc = "publish"
    /\ _state_lock = "free"
    /\ LET all_values == _get_all_register_values(entity_mappings, hass_states)
           name == NameOrder[tick_i]
           st == _update_single_register(Store, name, all_values[name])
       IN  /\ _data_block' = st.db
           /\ _current_values' = st.cv
           /\ _raw_register_values' = st.raw
           /\ IF tick_i = Len(NameOrder)
                THEN TickEnds(FALSE,
                              IF last_tick.was_failed THEN "recover"
                              ELSE "publish",
                              WrittenBy(all_values), last_tick.was_failed)
                ELSE /\ tick_i' = tick_i + 1
                     /\ UNCHANGED << tick_pc, last_tick, error_count,
                                     backoff_delay, update_pc >>
    /\ UNCHANGED << config, entity_mappings, hass_states, network, _running,
                    _meter_failed, _state_lock, server_pc, retry_count,
                    start_result, stop_pc, cancel_requested, last_read, call >>

\* get_register_value and get_raw_register_value are asked for these names.
ReadNames == { "voltage_l1", "frequency" }

\* get_register_value, get_raw_register_value, is_meter_failed: each takes
\* the lock for its read.
Read ==
    /\ start_result = "True"
    /\ _state_lock = "free"
    /\ \/ \E n \in ReadNames :
            last_read' = [ op |-> "get_register_value",
                           result |-> n \in DOMAIN _current_values ]
       \/ \E n \in ReadNames :
            last_read' = [ op |-> "get_raw_register_value",
                           result |-> n \in DOMAIN _raw_register_values ]
       \/ last_read' = [ op |-> "is_meter_failed", result |-> _meter_failed ]
    /\ UNCHANGED << config, entity_mappings, hass_states, network,
                    _data_block, _running, _meter_failed, _current_values,
                    _raw_register_values, update_pc, error_count,
                    backoff_delay, server_pc, retry_count, start_result,
                    stop_pc, cancel_requested, last_tick, _state_lock,
                    tick_pc, tick_i, call >>

\* The is_running property: it returns the flag without taking the lock.
ReadRunning ==
    /\ last_read' = [ op |-> "is_running", result |-> _running ]
    /\ UNCHANGED << config, entity_mappings, hass_states, network,
                    _data_block, _running, _meter_failed, _current_values,
                    _raw_register_values, update_pc, error_count,
                    backoff_delay, server_pc, retry_count, start_result,
                    stop_pc, cancel_requested, last_tick, _state_lock,
                    tick_pc, tick_i, call >>

InitConc ==
    /\ Constructed({ Setup(5020, 11, 10, LeanMapping, "free"),
                     Setup(5020, 11, 5, FullMapping, "free") })
    /\ hass_states = NominalStates

NextConc ==
    \/ Start
    \/ TickBegin
    \/ TickBlank
    \/ TickRestore
    \/ TickPublishOne
    \/ Read
    \/ EnvChange

SpecConc == InitConc /\ [][NextConc]_vars

(***************************************************************************)
(* The whole lifecycle with the inspection calls                           *)
(***************************************************************************)
InitFrame ==
    /\ Constructed({ Setup(5020, 11, 10, LeanMapping, "free"),
                     Setup(502, 247, 1, UnmappedRequired, "busy"),
                     Setup(5020, 11, 301, FullMapping, "free") })
    /\ hass_states = NominalStates

NextFrame ==
    \/ Start
    \/ PeriodicUpdate
    \/ ServerAttempt
    \/ ServerReturns
    \/ StopBegin
    \/ UpdateCancelled
    \/ StopAwaitUpdate
    \/ ServerCancelled
    \/ StopReturn
    \/ EnvChange
    \/ Read
    \/ ReadRunning

SpecFrame == InitFrame /\ [][NextFrame]_vars

(***************************************************************************)
(* Single calls of _update_single_register                                 *)
(***************************************************************************)
\* The engine once start() has created the store, its tasks not yet run.
Started(setups) ==
    /\ \E s \in setups :
         /\ config = [ port |-> s.port, slave_id |-> s.slave_id,
                       update_interval |-> s.update_interval ]
         /\ entity_mappings = s.mappings
         /\ network = s.network
         /\ backoff_delay = Seconds(s.update_interval)
    /\ _state_lock = "free"
    /\ tick_pc = "idle"
    /\ tick_i = 0
    /\ last_read = NoRead
    /\ _data_block = ZeroBlock
    /\ _running = TRUE
    /\ _meter_failed = FALSE
    /\ _current_values = EmptyDict
    /\ _raw_register_values = EmptyDict
    /\ update_pc = "pending"
    /\ error_count = 0
    /\ server_pc = "pending"
    /\ retry_count = 0
    /\ start_result = "True"
    /\ stop_pc = "idle"
    /\ cancel_requested = {}
    /\ last_tick = NoTick

\* The catalog names and a name outside the catalog.
EncodeNames == Names \cup { "bogus" }

\* Values in thousandths whose quotient by 0.1, 0.01 and 0.001 the float
\* division gives as the decimal quotient does (0.15 / 0.1, which is below
\* 1.5 in binary, is not among them): zero, the two examples of the
\* encoding, ties, both ends of the signed 16-bit range at each scale and
\* values beyond them; and the floats that are not ordinary numbers.
EncodeValues ==
    { Fin(x) : x \in { 0, 1, -1, 50, 250, -250, -5000, 3000, 49980, 230000,
                       231550, 398360, 32767, 32768, -32768, -32769, 40000,
                       -40000, 327670, 327675, -327680, -327685, 3276700,
                       3276750, 3276800, -3276800, -3276850, 5000000,
                       -5000000 } }
      \cup { NaN, PosInf, Huge }

InitEncode ==
    /\ Started({ Setup(5020, 11, 5, LeanMapping, "free") })
    /\ hass_states = NominalStates
    /\ \E n \in EncodeNames : \E v \in EncodeValues :
         call = [ op |-> "_update_single_register", register_name |-> n,
                  value |-> v, done |-> FALSE ]

EncodeCall ==
    /\ call.op = "_update_single_register"
    /\ ~call.done
    /\ LET st == _update_single_register(Store, call.register_name,
                                         call.value)
       IN  /\ _data_block' = st.db
           /\ _current_values' = st.cv
           /\ _raw_register_values' = st.raw
    /\ call' = [ call EXCEPT !.done = TRUE ]
    /\ UNCHANGED << config, entity_mappings, hass_states, network, _running,
                    _meter_failed, update_pc, error_count, backoff_delay,
                    server_pc, retry_count, start_result, stop_pc,
                    cancel_requested, last_tick, _state_lock, tick_pc,
                    tick_i, last_read >>

NextEncode == EncodeCall

SpecEncode == InitEncode /\ [][NextEncode]_vars

(***************************************************************************)
(* Single calls of _get_all_register_values                                *)
(***************************************************************************)
\* How many sources of a single call may be away from their nominal state.
MaxResolveDeviations == 2

ResolveEntityOrder ==
    << "sensor.grid_power", "sensor.l1_voltage", "sensor.frequency",
       "sensor.l2_voltage", "sensor.reactive", "sensor.pf",
       "sensor.l1_power", "sensor.l1_current", "sensor.l12_voltage" >>

ResolveNominal ==
    [ e \in { ResolveEntityOrder[i] : i \in 1..Len(ResolveEntityOrder) } |->
        CASE e = "sensor.grid_power" -> "9.0"
          [] e = "sensor.l1_voltage" -> "230.0"
          [] e = "sensor.frequency" -> "50.0"
          [] e = "sensor.l2_voltage" -> "231.55"
          [] e = "sensor.reactive" -> "4.0"
          [] e = "sensor.pf" -> "0"
          [] e = "sensor.l1_power" -> "0"
          [] e = "sensor.l1_current" -> "0"
          [] e = "sensor.l12_voltage" -> "0" ]

\* The other states a source is drawn from: numbers, zero, negative,
\* non-finite, beyond the range of a square, unavailable, not numeric.
ResolveSourceStates ==
    [ e \in DOMAIN ResolveNominal |->
        CASE e = "sensor.grid_power" ->
                 { "3.0", "0", "-5.0", "1e200", "inf", "unavailable" }
          [] e = "sensor.l1_voltage" ->
                 { "231.55", "0", "nan", "inf", "unknown" }
          [] e = "sensor.frequency" -> { "49.98", "abc" }
          [] e = "sensor.l2_voltage" -> { "0", "inf", "unavailable", "abc" }
          [] e = "sensor.reactive" -> { "0", "nan", "-5.0" }
          [] e = "sensor.pf" -> { "0.9", "unknown" }
          [] e = "sensor.l1_power" -> { "3.0", "4.0", "unavailable", "abc" }
          [] e = "sensor.l1_current" -> { "4.0", "unknown" }
          [] e = "sensor.l12_voltage" -> { "400.0", "unavailable" } ]

\* The states of the first i sources with at most d of them away from
\* nominal.
RECURSIVE ResolveStatesUpTo(_, _)
ResolveStatesUpTo(i, d) ==
    IF i = 0 THEN { << >> }
    ELSE LET e == ResolveEntityOrder[i]
         IN  { (e :> ResolveNominal[e]) @@ f : f \in ResolveStatesUpTo(i - 1, d) }
               \cup (IF d = 0 THEN {}
                     ELSE UNION { { (e :> v) @@ f : v \in ResolveSourceStates[e] } :
                                    f \in ResolveStatesUpTo(i - 1, d - 1) })

ResolveStates ==
    ResolveStatesUpTo(Len(ResolveEntityOrder), MaxResolveDeviations)

\* Every measurement that can be mapped to one of the sources.
WideMapping ==
    [ n \in { "power_total", "voltage_l1", "frequency", "voltage_l2",
              "reactive_power_total", "power_factor_total", "power_l1",
              "current_l1", "voltage_l1_l2" } |->
        CASE n = "power_total" -> "sensor.grid_power"
          [] n = "voltage_l1" -> "sensor.l1_voltage"
          [] n = "frequency" -> "sensor.frequency"
          [] n = "voltage_l2" -> "sensor.l2_voltage"
          [] n = "reactive_power_total" -> "sensor.reactive"
          [] n = "power_factor_total" -> "sensor.pf"
          [] n = "power_l1" -> "sensor.l1_power"
          [] n = "current_l1" -> "sensor.l1_current"
          [] n = "voltage_l1_l2" -> "sensor.l12_voltage" ]

\* The required measurements and the reactive power; the power factor is
\* not mapped.
ReactiveMapping ==
    [ n \in { "power_total", "voltage_l1", "frequency",
              "reactive_power_total" } |->
        CASE n = "power_total" -> "sensor.grid_power"
          [] n = "voltage_l1" -> "sensor.l1_voltage"
          [] n = "frequency" -> "sensor.frequency"
          [] n = "reactive_power_total" -> "sensor.reactive" ]

ResolveMappings ==
    { FullMapping, SparseMapping, LeanMapping, UnmappedRequired, WideMapping,
      ReactiveMapping }

InitResolve ==
    /\ Started({ Setup(5020, 11, 5, m, "free") : m \in ResolveMappings })
    /\ hass_states \in ResolveStates
    /\ call = NoCall

ResolveCall ==
    /\ call = NoCall
    /\ call' = [ op |-> "_get_all_register_values",
                 result |-> _get_all_register_values(entity_mappings,
                                                     hass_states) ]
    /\ UNCHANGED << config, entity_mappings, hass_states, network,
                    _data_block, _running, _meter_failed, _current_values,
                    _raw_register_values, update_pc, error_count,
                    backoff_delay, server_pc, retry_count, start_result,
                    stop_pc, cancel_requested, last_tick, _state_lock,
                    tick_pc, tick_i, last_read >>

NextResolve == ResolveCall

SpecResolve == InitResolve /\ [][NextResolve]_vars

(***************************************************************************)
(* The update loop on drawn mappings and source states                     *)
(***************************************************************************)
NextTick == PeriodicUpdate

SpecTick == InitResolve /\ [][NextTick]_vars

(***************************************************************************)
(* Properties                                                              *)
(***************************************************************************)
\* A step that runs _update_registers once.
TickStep == PeriodicUpdate /\ _running

\* Some required measurement is unmapped, or its source is missing,
\* "unknown" or "unavailable", or its state is not a number.
RequiredUnresolved ==
    \E n \in { "power_total", "voltage_l1", "frequency" } :
        \/ n \notin DOMAIN entity_mappings
        \/ entity_mappings[n] = ""
        \/ entity_mappings[n] \notin DOMAIN hass_states
        \/ hass_states[entity_mappings[n]] \in
               { NoState, "unknown", "unavailable", "abc" }

\* C1: after every tick the health state is Failed exactly when some
\* required measurement is unresolved at that tick, whatever the health
\* state was before the tick.
C1_HealthFollowsSources ==
    [][TickStep => (_meter_failed' <=> RequiredUnresolved)]_vars

\* A tick has recovered from the failed state.
C1_Witness == last_tick.kind = "recover" /\ ~_meter_failed

\* C2: whenever the engine is failed at a tick boundary, every catalog
\* register reads 0 and both caches have no entry for any name.
C2_FailedMeansBlank ==
    _meter_failed =>
        /\ \A n \in Names : _data_block[RegAddr[n]] = 0
        /\ \A n \in Names : n \notin DOMAIN _current_values
        /\ \A n \in Names : n \notin DOMAIN _raw_register_values

\* A failed tick followed a failed tick, after values had been published.
C2_Witness ==
    /\ last_tick.kind = "still_failed"
    /\ _meter_failed
    /\ entity_mappings = FullMapping

\* The word the claim expects in a register after a publication.
ExpectedWord(n) ==
    LET all_values == _get_all_register_values(entity_mappings, hass_states)
    IN  IF all_values = OverflowError THEN EncodeError
        ELSE EncodeWord(n, all_values[n])

\* C3: a tick that finds the engine failed and every required measurement
\* resolved ends healthy, with every catalog register holding the encoding
\* of the value resolved in that tick.
C3_RecoveryInSameTick ==
    [][(TickStep /\ _meter_failed /\ ~RequiredUnresolved) =>
          /\ ~_meter_failed'
          /\ \A n \in Names : _data_block'[RegAddr[n]] = ExpectedWord(n)]_vars

\* C4: a tick writes every catalog register with its resolved value, or
\* none.
C4_AllOrNothing ==
    last_tick.written = {} \/ last_tick.written = Names

\* C5: once the loop has stopped after max_errors consecutive errors, the
\* engine no longer reports that it is running.
C5_FatalReportedUpward ==
    update_pc = "exited_errors" => ~_running

\* C6: a tick that completes without error sets the error counter to 0 and
\* the delay to the update interval, and the loop is only ever stopped by
\* errors with the counter at max_errors.
C6_SuccessResets ==
    [][/\ (TickStep /\ last_tick'.kind \notin { "raised", "recover_raised" })
          => /\ error_count' = 0
             /\ backoff_delay' = Seconds(config.update_interval)
             /\ update_pc' = "sleep"
       /\ update_pc' = "exited_errors" => error_count' = 10]_vars

\* A successful tick came after some, but fewer than ten, errors.
C6_Witness ==
    /\ last_tick.kind \in { "publish", "enter_failed" }
    /\ last_tick.prev_errors > 0
    /\ error_count = 0

\* delay_k of the claim, in 1/512 s.
RECURSIVE DelayAfter(_)
DelayAfter(k) ==
    IF k = 0 THEN config.update_interval * 512
    ELSE LET d == (DelayAfter(k - 1) * 3) \div 2
         IN  IF d < 60 * 512 THEN d ELSE 60 * 512

\* C7: while the loop waits after its k-th consecutive error, k < 10, the
\* wait is delay_k, and it is at most 60 seconds.
C7_BackoffDelay ==
    update_pc = "backoff" =>
        /\ error_count \in 1..9
        /\ backoff_delay = DelayAfter(error_count)
        /\ backoff_delay <= 60 * 512

\* The loop waits after its ninth consecutive error, at the cap.
C7_Witness ==
    /\ update_pc = "backoff"
    /\ error_count = 9
    /\ backoff_delay = 60 * 512

\* C8: a tick in which a required measurement is unresolved returns
\* normally: the error counter is 0 after it, the delay is the update
\* interval and the loop goes on to its normal sleep.
C8_HealthFailureIsNoError ==
    [][(TickStep /\ RequiredUnresolved) =>
          /\ error_count' = 0
          /\ backoff_delay' = Seconds(config.update_interval)
          /\ update_pc' = "sleep"]_vars

\* A second failed tick in a row has left the loop in its normal sleep.
C8_Witness ==
    /\ last_tick.kind = "still_failed"
    /\ last_tick.was_failed
    /\ update_pc = "sleep"
    /\ error_count = 0

\* C9: stop() returns; once it has returned the engine does not report
\* running and neither the register store nor the caches change again.
C9_StopEndsTheLoop ==
    /\ (stop_pc = "await_update") ~> (stop_pc = "returned")
    /\ [](stop_pc = "returned" => ~_running /\ update_pc \notin Waiting)
    /\ [][stop_pc = "returned" =>
            UNCHANGED << _data_block, _current_values,
                         _raw_register_values >>]_vars

\* stop() has returned after cancelling the loop in its backoff sleep.
C9_Witness ==
    /\ stop_pc = "returned"
    /\ update_pc = "cancelled"
    /\ last_tick.kind = "raised"
    /\ error_count \in 1..9

\* C10: whenever the lock is free, the two caches hold the same names, and
\* a failed engine has empty caches.
C10_CacheSafeForReaders ==
    _state_lock = "free" =>
        /\ DOMAIN _current_values = DOMAIN _raw_register_values
        /\ _meter_failed => DOMAIN _current_values = {}

\* An inspection call found the flag set while a later tick is publishing.
C10_Witness ==
    /\ tick_pc = "publish"
    /\ tick_i > 1
    /\ _state_lock = "free"
    /\ last_tick.was_failed
    /\ last_read = [ op |-> "is_meter_failed", result |-> TRUE ]

\* clamp(r, -32768, 32767)
Clamp16(r) == IF r < -32768 THEN -32768 ELSE IF r > 32767 THEN 32767 ELSE r

\* T(r) = r for r >= 0 and 65536 + r for r < 0
T(r) == IF r >= 0 THEN r ELSE 65536 + r

\* A call of _update_single_register for a catalog name has returned.
Encoded ==
    /\ call.op = "_update_single_register"
    /\ call.done
    /\ call.register_name \in Names

\* C11: for a catalog name and a finite value v the word written to the
\* register and to the raw cache is T(clamp(round(v / scale), -32768,
\* 32767)), a word in 0..65535 (a finite value beyond every integer range
\* of the model is clamped to 32767); 230.0 V gives 2300 and -5.000 A gives
\* 60536.
C11_EncodedWord ==
    (Encoded /\ call.value.k \in { "fin", "huge" }) =>
        LET n == call.register_name
            w == IF call.value.k = "huge" THEN 32767
                 ELSE T(Clamp16(RoundHalfEven(call.value.v, RegScale[n])))
        IN  /\ _data_block[RegAddr[n]] = w
            /\ n \in DOMAIN _raw_register_values
            /\ _raw_register_values[n] = w
            /\ _data_block[RegAddr[n]] \in 0..65535
            /\ (n = "voltage_l1" /\ call.value = Fin(230000)) => w = 2300
            /\ (n = "current_l1" /\ call.value = Fin(-5000)) => w = 60536

\* -5.000 A has been written to current_l1 as 60536.
C11_Witness ==
    /\ Encoded
    /\ call.register_name = "current_l1"
    /\ call.value = Fin(-5000)
    /\ _data_block[RegAddr["current_l1"]] = 60536

\* The two's-complement reading of a 16-bit word, times the scale, in
\* thousandths.
DecodeWord(register_name, word) ==
    (IF word >= 32768 THEN word - 65536 ELSE word) * RegScale[register_name]

\* v / scale lies in [-32768, 32767].
InRange16(register_name, value) ==
    /\ value.k = "fin"
    /\ -32768 * RegScale[register_name] <= value.v
    /\ value.v <= 32767 * RegScale[register_name]

\* C12: for a catalog name and a value whose scaled value lies in
\* [-32768, 32767], the written word decodes to the value within one unit
\* of the scale.
C12_RoundTrip ==
    (Encoded /\ InRange16(call.register_name, call.value)) =>
        LET n == call.register_name
            d == DecodeWord(n, _data_block[RegAddr[n]])
        IN  /\ d - call.value.v <= RegScale[n]
            /\ call.value.v - d <= RegScale[n]

\* -0.25 V, between two steps of 0.1 V, has been written as -2 steps.
C12_Witness ==
    /\ Encoded
    /\ call.register_name = "voltage_l1"
    /\ call.value = Fin(-250)
    /\ _data_block[RegAddr["voltage_l1"]] = 65534

\* The store and the caches of an engine that has published nothing yet.
FreshStore == [ db |-> ZeroBlock, cv |-> EmptyDict, raw |-> EmptyDict ]

\* The store and the caches after the step.
StoreAfter == [ db |-> _data_block', cv |-> _current_values',
                raw |-> _raw_register_values' ]

\* A second tick on the same mapping and source states changes nothing.
SecondTickSame ==
    _update_registers(StoreAfter, _meter_failed', entity_mappings,
                      hass_states).st = StoreAfter

\* The tick leaves what it would leave in an engine that has published
\* nothing yet.
HistoryFree ==
    StoreAfter = _update_registers(FreshStore, FALSE, entity_mappings,
                                   hass_states).st

\* C13: after a healthy tick that completes, a second tick on unchanged
\* mapping and source states leaves the same register words and cache
\* contents, and the words and cache contents are those the source states
\* give whatever the registers and caches held before.
C13_TickIdempotent ==
    [][(TickStep /\ last_tick'.kind = "publish") =>
          SecondTickSame /\ HistoryFree]_vars

\* A call of _get_all_register_values has ended.
Resolved == call.op = "_get_all_register_values"

\* C14: for every entity mapping and every combination of source states
\* _get_all_register_values returns a mapping, and its keys are exactly the
\* catalog names.
C14_ResolverTotal ==
    Resolved => /\ call.result # OverflowError
                /\ DOMAIN call.result = Names

\* The mapped catalog names outside the required set whose source is
\* missing, 'unknown', 'unavailable' or not numeric.
BadOptional ==
    { m \in DOMAIN entity_mappings \cap Names :
        /\ m \notin { "power_total", "voltage_l1", "frequency" }
        /\ entity_mappings[m] # ""
        /\ \/ entity_mappings[m] \notin DOMAIN hass_states
           \/ hass_states[entity_mappings[m]]
                  \in { NoState, "unknown", "unavailable", "abc" } }

\* The entity mapping without the entry of m.
Unmapped(m) ==
    [ k \in DOMAIN entity_mappings \ { m } |-> entity_mappings[k] ]

\* C15 as stated: after a healthy tick that completes (here one that has
\* published finite values only), every such measurement is published with
\* its default value.
C15_BadOptionalIsDefault ==
    [][(/\ TickStep
        /\ last_tick'.kind = "publish"
        /\ last_tick'.written = Names
        /\ \A n \in Names : _current_values'[n].k = "fin") =>
          \A m \in BadOptional :
              /\ m \in DOMAIN _current_values'
              /\ _current_values'[m] = DEFAULT_VALUES[m]]_vars

\* C15, amended: a mapped measurement outside the required set whose source
\* is missing, 'unknown', 'unavailable' or not numeric is treated by the
\* tick exactly as if it were not mapped: it starts from its default (which
\* the derivation may fill as for any unset measurement), the health state,
\* the outcome of the tick and every published word and cache entry are
\* those of the tick without that mapping entry, and with every required
\* measurement resolved the tick stays healthy.
C15_BadOptionalAsUnmapped ==
    [][TickStep =>
          /\ \A m \in BadOptional :
                LET r == _update_registers(Store, _meter_failed, Unmapped(m),
                                           hass_states)
                IN  /\ StoreAfter = r.st
                    /\ _meter_failed' = r.failed
                    /\ last_tick'.kind = r.kind
          /\ (BadOptional # {} /\ ~RequiredUnresolved) => ~_meter_failed']_vars

\* power_l1 is mapped to an unavailable source and the tick has published
\* a third of the total power for it.
C15_Witness ==
    /\ last_tick.kind = "publish"
    /\ entity_mappings = WideMapping
    /\ hass_states["sensor.l1_power"] = "unavailable"
    /\ hass_states["sensor.grid_power"] = "9.0"
    /\ ~_meter_failed
    /\ _current_values["power_l1"] = Fin(3000)

\* The mapped catalog names whose source is available and parses to a
\* float that is not finite.
NonFiniteMapped ==
    { n \in DOMAIN entity_mappings \cap Names :
        /\ entity_mappings[n] \in DOMAIN hass_states
        /\ FloatOf(hass_states[entity_mappings[n]]) \in { NaN, PosInf } }

\* C16: a source state that parses to a non-finite number does not
\* overwrite the default of its measurement, and no non-finite value is in
\* the mapping handed to the encoder.
C16_NonFiniteRejected ==
    (Resolved /\ call.result # OverflowError) =>
        /\ \A n \in NonFiniteMapped : call.result[n] \notin { NaN, PosInf }
        /\ \A n \in Names : call.result[n] \notin { NaN, PosInf }

\* The mapped catalog names whose source is available with a numeric value
\* other than 0.
NonZeroMapped ==
    { n \in DOMAIN entity_mappings \cap Names :
        /\ entity_mappings[n] \in DOMAIN hass_states
        /\ hass_states[entity_mappings[n]] \notin { "unknown", "unavailable" }
        /\ FloatOf(hass_states[entity_mappings[n]]) \notin
               { ValueError, Fin(0) } }

\* C17: for every catalog name whose mapped source is available with a
\* numeric value v other than 0, the value the resolver returns for that
\* name is v, whatever the other measurements are.
C17_MappedNonZeroKept ==
    (Resolved /\ call.result # OverflowError) =>
        \A n \in NonZeroMapped :
            call.result[n] = FloatOf(hass_states[entity_mappings[n]])

\* power_l1 is mapped to 4.0 while a third of the total power is 3.0: the
\* mapped phase keeps 4.0 and the unmapped ones get 3.0.
C17_Witness ==
    /\ Resolved
    /\ entity_mappings = WideMapping
    /\ hass_states["sensor.l1_power"] = "4.0"
    /\ hass_states["sensor.grid_power"] = "9.0"
    /\ call.result # OverflowError
    /\ call.result["power_l1"] = Fin(4000)
    /\ call.result["power_l2"] = Fin(3000)

\* The names among ns that the entity mapping maps to a source id.
MappedAmong(ns) ==
    { n \in ns : n \in DOMAIN entity_mappings /\ entity_mappings[n] # "" }

\* x is y / 3: to the resolution of the model for finite values; an
\* infinite or huge total gives an infinite or huge third.
IsThirdOf(x, y) ==
    IF y.k = "fin"
      THEN x.k = "fin" /\ 3 * x.v - y.v \in -1..1
      ELSE x = y

\* C18: when power_total resolves to p > 0 and none of power_l1, power_l2,
\* power_l3 is mapped, each of them resolves to p / 3; a total of 9.0 gives
\* 3.0 per phase.
C18_PhasePowerSplit ==
    (/\ Resolved
     /\ call.result # OverflowError
     /\ MappedAmong({ "power_l1", "power_l2", "power_l3" }) = {}) =>
        LET p == call.result["power_total"]
        IN  IsPos(p) =>
              \A n \in { "power_l1", "power_l2", "power_l3" } :
                  /\ IsThirdOf(call.result[n], p)
                  /\ p = Fin(9000) => call.result[n] = Fin(3000)

\* A total of 9.0 kW with no phase power mapped has been resolved.
C18_Witness ==
    /\ Resolved
    /\ entity_mappings = FullMapping
    /\ call.result # OverflowError
    /\ call.result["power_total"] = Fin(9000)
    /\ call.result["power_l1"] = Fin(3000)
    /\ call.result["power_l3"] = Fin(3000)

\* C19: when voltage_l1 resolves to a finite v > 0 and no line-to-line voltage is
\* mapped, each of voltage_l1_l2, voltage_l2_l3, voltage_l3_l1 resolves to
\* v * 1.732; 230.0 gives 398.36.
C19_LineToLineDerived ==
    (/\ Resolved
     /\ call.result # OverflowError
     /\ MappedAmong({ "voltage_l1_l2", "voltage_l2_l3", "voltage_l3_l1" }) = {}) =>
        LET v == call.result["voltage_l1"]
        IN  (v.k = "fin" /\ v.v > 0) =>
              \A n \in { "voltage_l1_l2", "voltage_l2_l3", "voltage_l3_l1" } :
                  /\ call.result[n] = Times1732(v)
                  /\ v = Fin(230000) => call.result[n] = Fin(398360)

\* voltage_l2 or voltage_l3 without a value of its own: not mapped, or
\* mapped to a source that is missing, 'unknown' or 'unavailable'.
UnsetPhaseVoltages ==
    { n \in { "voltage_l2", "voltage_l3" } :
        \/ n \notin MappedAmong({ n })
        \/ entity_mappings[n] \notin DOMAIN hass_states
        \/ hass_states[entity_mappings[n]] \in { "unknown", "unavailable" } }

\* C20: when voltage_l1 resolves to a finite v > 0, each of voltage_l2 and
\* voltage_l3 that is unset resolves to v.
C20_PhaseVoltageFromReference ==
    (Resolved /\ call.result # OverflowError) =>
        LET v == call.result["voltage_l1"]
        IN  (v.k = "fin" /\ v.v > 0) =>
              \A n \in UnsetPhaseVoltages : call.result[n] = v

\* C21: when power_factor_total is not mapped and the total active power
\* resolves to a finite a > 0, power_factor_total resolves to
\* min(1.0, |a| / sqrt(a^2 + r^2)) for a finite reactive power r other than
\* 0 (0.6 for a = 3.0 and r = 4.0) and to 1.0 for r = 0.
C21_PowerFactorDerived ==
    (/\ Resolved
     /\ call.result # OverflowError
     /\ MappedAmong({ "power_factor_total" }) = {}) =>
        LET a == call.result["power_total"]
            r == call.result["reactive_power_total"]
            pf == call.result["power_factor_total"]
        IN  (a.k = "fin" /\ a.v > 0 /\ r.k = "fin") =>
              /\ pf = PowerFactorOf(a, r)
              /\ (a = Fin(3000) /\ r = Fin(4000)) => pf = Fin(600)
              /\ r = Fin(0) => pf = Fin(1000)

\* A port outside 1..65535, a slave id outside 1..247 or an update interval
\* outside 1..300.
InvalidConfig ==
    \/ config.port \notin 1..65535
    \/ config.slave_id \notin 1..247
    \/ config.update_interval \notin 1..300

\* C22: with an invalid configuration the only thing that ever happens to
\* the engine is the one call of start(), which returns False and leaves
\* the register store and both tasks uncreated and is_running False;
\* nothing follows it.
C22_InvalidConfigRejected ==
    [][InvalidConfig =>
          /\ start_result = "none"
          /\ start_result' = "False"
          /\ _data_block' = None
          /\ server_pc' = "none"
          /\ update_pc' = "none"
          /\ ~_running']_vars

\* start() has returned False for an update interval of 301 s.
C22_Witness ==
    /\ start_result = "False"
    /\ config.update_interval = 301
    /\ _data_block = None
    /\ ~_running

\* Some required measurement has no source in the entity mapping.
RequiredUnmapped ==
    \E i \in DOMAIN REQUIRED_ENTITIES :
        \/ REQUIRED_ENTITIES[i] \notin DOMAIN entity_mappings
        \/ entity_mappings[REQUIRED_ENTITIES[i]] = ""

\* C23: an engine whose mapping leaves a required measurement unmapped is
\* never started: start() does not return True for it, the register store
\* and the update loop are never created and no tick ever runs.
C23_UnmappedRequiredRejected ==
    RequiredUnmapped =>
        /\ start_result # "True"
        /\ _data_block = None
        /\ update_pc = "none"
        /\ last_tick = NoTick

\* The server task has given up binding a busy port: retries exhausted.
Exhausted == server_pc = "exited" /\ retry_count >= 3

\* C24: a bind error is counted and followed by the fixed delay; no start
\* attempt is made once 3 have failed; when the server task ends with the
\* attempts exhausted the engine is no longer running, and from then on
\* the update loop does not tick.
C24_BindRetriesBounded ==
    [][/\ retry_count' # retry_count =>
             /\ retry_count < 3
             /\ retry_count' = retry_count + 1
             /\ network = "busy" => server_pc' = "retry_sleep"
       /\ (server_pc # "serving" /\ server_pc' = "serving") => retry_count < 3
       /\ (server_pc' = "exited" /\ retry_count' >= 3) => ~_running'
       /\ Exhausted => ~_running /\ ~TickStep]_vars

\* Three attempts met a busy port; the server task has ended, is_running
\* is False without stop() having been called, and the update loop has left.
C24_Witness ==
    /\ Exhausted
    /\ network = "busy"
    /\ retry_count = 3
    /\ ~_running
    /\ stop_pc = "idle"
    /\ update_pc = "exited"

\* The server task has ended without the protocol server ever having been
\* started: binding raised, or the library raised something else.
ServerNeverStarted ==
    /\ server_pc = "exited"
    /\ \/ retry_count >= 3
       \/ network \in { "denied", "broken" }

\* C26: whenever the server task has ended without the server having been
\* started, for any cause, is_running is False and the update loop does
\* not tick.
C26_NoServerMeansNotRunning ==
    [][ServerNeverStarted => ~_running /\ ~TickStep]_vars

\* C25: the engine is Healthy from construction until its first tick, and
\* the health flag changes only in a step that runs _update_registers:
\* start(), stop(), the server task and the four readers leave it alone.
C25_HealthChangesOnlyInTick ==
    [][/\ start_result = "none" => ~_meter_failed /\ ~_meter_failed'
       /\ _meter_failed' # _meter_failed => TickStep]_vars

\* stop() has returned on an engine that is failed, and a reader has been
\* called since.
C25_Witness ==
    /\ _meter_failed
    /\ stop_pc = "returned"
    /\ last_read.op = "is_running"
    /\ ~last_read.result

\* C27: at every tick boundary the word stored at the catalog address of
\* every name in the raw cache is the cached raw word.
C27_StoreAgreesWithCache ==
    _data_block # None =>
        \A n \in DOMAIN _raw_register_values :
            /\ n \in Names
            /\ _data_block[RegAddr[n]] = _raw_register_values[n]

\* A healthy tick has left a register unwritten (an encode error) whose
\* word an earlier tick had cached.
C27_Witness ==
    /\ last_tick.kind = "publish"
    /\ \E n \in DOMAIN _raw_register_values \ last_tick.written :
           _raw_register_values[n] # 0

\* C28: while the update loop waits in its error backoff, the wait is at
\* least the configured update interval.
C28_BackoffNotBelowInterval ==
    update_pc = "backoff" =>
        backoff_delay >= Seconds(config.update_interval)

\* C29: for every name in the value cache, the raw cache holds a word, and
\* that word, read as two's complement and multiplied by the scale, is the
\* cached (finite) physical value within one unit of the scale.
C29_CachedValueIsSentValue ==
    \A n \in DOMAIN _current_values :
        /\ n \in DOMAIN _raw_register_values
        /\ _current_values[n].k = "fin" =>
              LET d == DecodeWord(n, _raw_register_values[n])
              IN  /\ d - _current_values[n].v <= RegScale[n]
                  /\ _current_values[n].v - d <= RegScale[n]

\* Every followed address outside the catalog holds its initial 0.
OthersUntouched ==
    _data_block # None => \A a \in OtherAddrs : _data_block[a] = 0

\* The number of words the last tick wrote for a catalog entry.
WordsWritten(n) == SetValuesCalls(last_tick.kind, last_tick.written, n)

====
